---- MODULE Spec2Model ----
(***************************************************************************)
(* Webberizer (src/main.py): one request to the /analyze endpoint.  The    *)
(* handler validates the url form field, fetches the page and extracts     *)
(* the article (WebScraper.extract_article), sends title and text to the   *)
(* chat-completion endpoint (GroqAnalyzer.analyze_text) and answers with   *)
(* the analysis or an error mapping.                                       *)
(*                                                                         *)
(* Strings whose characters matter (urls, page text) are sequences of      *)
(* one-character strings.  The outcome of the GET and of the POST is an    *)
(* input of the step that issues it.                                       *)
(***************************************************************************)
EXTENDS Integers, Sequences, FiniteSets, TLC

VARIABLES pc, url, fetched, title, text, llm, analysis, status, body,
          getCount, postCount, respCount

vars == <<pc, url, fetched, title, text, llm, analysis, status, body,
          getCount, postCount, respCount>>

\* Largest number of top-level elements of a fetched page.
MaxElems == 2

(***************************************************************************)
(* Strings                                                                 *)
(***************************************************************************)
IsSpace(c) == c \in {" ", "\n"}

\* str.startswith(prefix)
StartsWith(s, prefix) ==
    /\ Len(s) >= Len(prefix)
    /\ SubSeq(s, 1, Len(prefix)) = prefix

RECURSIVE LStrip(_)
LStrip(s) ==
    IF s # <<>> /\ IsSpace(Head(s)) THEN LStrip(Tail(s)) ELSE s

RECURSIVE RStrip(_)
RStrip(s) ==
    IF s # <<>> /\ IsSpace(s[Len(s)]) THEN RStrip(SubSeq(s, 1, Len(s) - 1)) ELSE s

\* str.strip()
Strip(s) == RStrip(LStrip(s))

\* re.sub(r'\s+', ' ', s): every maximal run of whitespace becomes one space
RECURSIVE CollapseSpaces(_)
CollapseSpaces(s) ==
    IF s = <<>> THEN <<>>
    ELSE IF IsSpace(Head(s))
         THEN <<" ">> \o CollapseSpaces(LStrip(s))
         ELSE <<Head(s)>> \o CollapseSpaces(Tail(s))

\* ' '.join(parts)
RECURSIVE JoinSpace(_)
JoinSpace(parts) ==
    IF parts = <<>> THEN <<>>
    ELSE IF Len(parts) = 1 THEN parts[1]
    ELSE parts[1] \o <<" ">> \o JoinSpace(Tail(parts))

(***************************************************************************)
(* The url form field                                                      *)
(***************************************************************************)
HttpPrefix == <<"h", "t", "t", "p", ":", "/", "/">>
HttpsPrefix == <<"h", "t", "t", "p", "s", ":", "/", "/">>

\* request.form.get('url'): None when the field is missing
NoUrl == [given |-> FALSE, value |-> <<>>]
Url(s) == [given |-> TRUE, value |-> s]

Urls ==
    { NoUrl,
      Url(<<>>),
      Url(<<"f", "t", "p", ":", "/", "/", "x">>),
      Url(<<"h", "t", "t", "p", ":", "/", "x">>),
      Url(<<"x", "h", "t", "t", "p", ":", "/", "/">>),
      Url(HttpPrefix \o <<"x">>),
      Url(HttpsPrefix \o <<"x">>) }

\* `not url`
UrlMissing(u) == ~u.given \/ u.value = <<>>

\* UrlWellFormed with the check reduced to the scheme's first four letters.
UrlWellFormedLoose(u) == StartsWith(u.value, <<"h", "t", "t", "p">>)

\* url.startswith(('http://', 'https://'))
UrlWellFormed(u) ==
    StartsWith(u.value, HttpPrefix) \/ StartsWith(u.value, HttpsPrefix)

(***************************************************************************)
(* Fetched pages                                                           *)
(***************************************************************************)
\* A paragraph element of a container: its text, and whether it lies in a
\* subtree of one of the unwanted tags (script, style, nav, ...).
Para(t, u) == [text |-> t, unwanted |-> u]

ParaLists ==
    { <<>>,
      << Para(<<" ", "\n">>, FALSE), Para(<<"n">>, TRUE) >>,
      << Para(<<"a">>, FALSE) >>,
      << Para(<<"a", "\n", "\n", " ", " ", "b">>, FALSE),
         Para(<<"\n">>, FALSE),
         Para(<<"n">>, TRUE),
         Para(<<" ", " ", "c", " ">>, FALSE) >> }

\* The substrings the selectors look for in a div's class attribute.
Classes == {"article", "content", "post"}

\* A top-level element: its tag, the selector substrings its class attribute
\* contains, its own text (h1) and its paragraphs (containers).
Elem(tag, cls, txt, paras) ==
    [tag |-> tag, cls |-> cls, text |-> txt, paras |-> paras]

Elements ==
    { Elem("h1", {}, <<" ", "T", "\n">>, <<>>) }
    \cup { Elem(tag, {}, <<>>, ps) : tag \in {"article", "main"}, ps \in ParaLists }
    \cup { Elem("div", cls, <<>>, ps) : cls \in SUBSET Classes, ps \in ParaLists }

\* A page: its elements in document order.
Pages == UNION { [1..n -> Elements] : n \in 0..MaxElems }

\* The selectors of the for loop, in its order.
Selectors ==
    << "article", "div[class*=article]", "div[class*=content]",
       "div[class*=post]", "main" >>

\* Whether element e matches a CSS selector of the list.
Matches(e, sel) ==
    CASE sel = "article" -> e.tag = "article"
      [] sel = "div[class*=article]" -> e.tag = "div" /\ "article" \in e.cls
      [] sel = "div[class*=content]" -> e.tag = "div" /\ "content" \in e.cls
      [] sel = "div[class*=post]" -> e.tag = "div" /\ "post" \in e.cls
      [] sel = "main" -> e.tag = "main"

\* soup.select_one(sel): the index of the first element, in document order,
\* that matches the selector; 0 for None.
RECURSIVE SelectOneFrom(_, _, _)
SelectOneFrom(soup, sel, i) ==
    IF i > Len(soup) THEN 0
    ELSE IF Matches(soup[i], sel) THEN i
    ELSE SelectOneFrom(soup, sel, i + 1)

SelectOne(soup, sel) == SelectOneFrom(soup, sel, 1)

\* soup.find(tag): the index of the first element with that tag; 0 for None.
RECURSIVE FindFrom(_, _, _)
FindFrom(soup, tag, i) ==
    IF i > Len(soup) THEN 0
    ELSE IF soup[i].tag = tag THEN i
    ELSE FindFrom(soup, tag, i + 1)

Find(soup, tag) == FindFrom(soup, tag, 1)

(***************************************************************************)
(* Exceptions                                                              *)
(***************************************************************************)
Exc(cls, msg) == [cls |-> cls, msg |-> msg]
NoExc == Exc("none", "")

\* The classes raised below that derive from requests.RequestException.
RequestExceptions ==
    {"ConnectionError", "Timeout", "HTTPError", "requests.JSONDecodeError"}

\* response.raise_for_status() raises HTTPError for a 4xx or 5xx status.
RaisesForStatus(s) == s >= 400 /\ s < 600

(***************************************************************************)
(* WebScraper.extract_article                                              *)
(***************************************************************************)
\* The outcome of session.get(url, timeout=30) and of the later steps:
\* net is "ok" or the exception the GET raises; fault names the step after
\* the fetch in which an unexpected exception arises ("none" if none does).
GetOutcome(net, st, fault, page) ==
    [net |-> net, status |-> st, fault |-> fault, page |-> page]

NotFetched == GetOutcome("none", 0, "none", <<>>)

Faults == {"parse", "select", "cleanup", "assemble"}

GetOutcomes ==
    { GetOutcome(n, 0, "none", <<>>) : n \in {"ConnectionError", "Timeout"} }
    \cup { GetOutcome("ok", s, "none", <<>>) : s \in {404, 500} }
    \cup { GetOutcome("ok", 200, f, <<>>) : f \in Faults }
    \cup { GetOutcome("ok", s, "none", p) : s \in {200, 300}, p \in Pages }

Extracted(exc, t, b) == [exc |-> exc, title |-> t, text |-> b]

\* title = ''; title_tag = soup.find('h1'); if title_tag: ...
TitleOf(soup) ==
    LET h == Find(soup, "h1")
    IN  IF h # 0 THEN Strip(soup[h].text) ELSE <<>>

\* The for loop over the selectors: the first selector with a match wins.
RECURSIVE FindArticleFrom(_, _)
FindArticleFrom(soup, i) ==
    IF i > Len(Selectors) THEN 0
    ELSE LET article == SelectOne(soup, Selectors[i])
         IN  IF article # 0 THEN article ELSE FindArticleFrom(soup, i + 1)

\* FindArticle with the break left out: the last selector with a match wins.
FindArticleNoBreak(soup) ==
    LET hits == { i \in 1..Len(Selectors) : SelectOne(soup, Selectors[i]) # 0 }
    IN  IF hits = {} THEN 0
        ELSE SelectOne(soup, Selectors[CHOOSE i \in hits : \A j \in hits : j <= i])

FindArticle(soup) == FindArticleFrom(soup, 1)

\* decompose the unwanted subtrees, join the stripped paragraph texts with
\* spaces, collapse whitespace, strip.
BodyText(article) ==
    LET Wanted(p) == ~p.unwanted
        kept == SelectSeq(article.paras, Wanted)
        parts == [i \in 1..Len(kept) |-> Strip(kept[i].text)]
    IN  Strip(CollapseSpaces(JoinSpace(parts)))

\* TryExtract with a missing container reported as (title, '') instead of
\* raised.
TryExtractNoRaise(g) ==
    IF g.net # "ok" THEN Extracted(Exc(g.net, "fetch failed"), <<>>, <<>>)
    ELSE IF RaisesForStatus(g.status)
         THEN Extracted(Exc("HTTPError", "bad status"), <<>>, <<>>)
    ELSE IF g.fault # "none"
         THEN Extracted(Exc("Exception", g.fault), <<>>, <<>>)
    ELSE LET article == FindArticle(g.page)
         IN  IF article = 0
             THEN Extracted(NoExc, TitleOf(g.page), <<>>)
             ELSE Extracted(NoExc, TitleOf(g.page), BodyText(g.page[article]))

\* The body of the try block.
TryExtract(g) ==
    IF g.net # "ok" THEN Extracted(Exc(g.net, "fetch failed"), <<>>, <<>>)
    ELSE IF RaisesForStatus(g.status)
         THEN Extracted(Exc("HTTPError", "bad status"), <<>>, <<>>)
    ELSE IF g.fault # "none"
         THEN Extracted(Exc("Exception", g.fault), <<>>, <<>>)
    ELSE LET article == FindArticle(g.page)
         IN  IF article = 0
             THEN Extracted(Exc("ValueError", "Could not find article content"),
                            <<>>, <<>>)
             ELSE Extracted(NoExc, TitleOf(g.page), BodyText(g.page[article]))

\* ExtractCatches narrowed to `except requests.RequestException`.
ExtractCatchesRequestOnly(cls) == cls \in RequestExceptions

\* `except Exception`: every exception class raised in the try block.
ExtractCatches(cls) == cls # "none"

\* extract_article: exc is the exception that escapes to the caller.
ExtractArticle(g) ==
    LET r == TryExtract(g)
    IN  IF ExtractCatches(r.exc.cls) THEN Extracted(NoExc, <<>>, <<>>) ELSE r

(***************************************************************************)
(* GroqAnalyzer.analyze_text                                               *)
(***************************************************************************)
\* A decoded JSON value, as far as the code looks at it.  kind is "object",
\* "array", "string" or "scalar" (number, boolean, null); keys is the set of
\* k for which the Python test `k in value` is true: the keys of an object,
\* the elements of an array, the substrings of a string.  error and details
\* are the values under those keys ("" when absent).
Json(kind, keys, err, det) ==
    [kind |-> kind, keys |-> keys, error |-> err, details |-> det]

NoJson == Json("none", {}, "", "")

\* expected_keys
ExpectedKeys ==
    {"summary", "key_points", "sentiment", "topics", "writing_style",
     "target_audience"}

\* The four keys the prompt asks the model for.
PromptKeys == {"summary", "key_points", "topics", "writing_style"}

\* Keys a model may add of its own accord.
OtherKeys == {"error", "extra"}

\* choices[0].message.content: text that is no JSON ("not_json"), a content
\* that is no string at all ("not_str"), or the text of a JSON value.
Contents ==
    { Json(k, {}, "", "") : k \in {"not_json", "not_str", "scalar"} }
    \cup { Json(k, ks, IF "error" \in ks /\ k = "object" THEN "(from the model)" ELSE "", "") :
             k \in {"object", "array", "string"},
             ks \in SUBSET (ExpectedKeys \cup OtherKeys) }

\* The outcome of requests.post: net is "ok" or the exception it raises;
\* data describes the response body: "not_json" (response.json() raises
\* jsonExc), "scalar" (JSON, but no container), "no_choices",
\* "empty_choices", "bad_choice" (choices[0] has no message.content) or
\* "content".  jsonExc is requests.JSONDecodeError, a RequestException, in
\* requests 2.27 and later, and a plain ValueError before.
PostOutcome(net, st, data, jsonExc, content) ==
    [net |-> net, status |-> st, data |-> data, jsonExc |-> jsonExc,
     content |-> content]

NotPosted == PostOutcome("none", 0, "none", "none", NoJson)

PostOutcomes ==
    { PostOutcome(n, 0, "none", "none", NoJson) : n \in {"ConnectionError", "Timeout"} }
    \cup { PostOutcome("ok", s, "none", "none", NoJson) : s \in {401, 429, 500} }
    \cup { PostOutcome("ok", s, "not_json", e, NoJson) :
             s \in {200, 300}, e \in {"requests.JSONDecodeError", "ValueError"} }
    \cup { PostOutcome("ok", s, d, "none", NoJson) :
             s \in {200, 300},
             d \in {"scalar", "no_choices", "empty_choices", "bad_choice"} }
    \cup { PostOutcome("ok", s, "content", "none", c) :
             s \in {200, 300}, c \in Contents }

\* A result of the try block: the value returned, or the exception raised.
Returned(v) == [exc |-> NoExc, value |-> v]
Raised(cls, msg) == [exc |-> Exc(cls, msg), value |-> NoJson]

\* The failure mapping {"error": ..., "details": str(e)}.
Failure(err, det) == Json("object", {"error", "details"}, err, det)

\* ValidateKeys with the four keys of the prompt as the expected keys.
ValidateKeysOfPrompt(a) ==
    IF a.kind = "scalar"
    THEN Raised("TypeError", "argument is not iterable")
    ELSE IF ~(\A key \in PromptKeys : key \in a.keys)
         THEN Raised("ValueError", "Missing required keys in analysis response")
         ELSE Returned(a)

\* `if not all(key in analysis for key in expected_keys)`; `key in analysis`
\* raises TypeError when analysis is no container.
ValidateKeys(a) ==
    IF a.kind = "scalar"
    THEN Raised("TypeError", "argument is not iterable")
    ELSE IF ~(\A key \in ExpectedKeys : key \in a.keys)
         THEN Raised("ValueError", "Missing required keys in analysis response")
         ELSE Returned(a)

\* OnJSONDecodeError returning its own error mapping instead of raising.
OnJSONDecodeErrorReturns(e) ==
    Returned(Failure("Invalid JSON response from GROQ", e))

\* `except json.JSONDecodeError as e`: log and raise ValueError.
OnJSONDecodeError(e) ==
    Raised("ValueError", "Invalid JSON response from GROQ")

\* The inner try block: json.loads(analysis_text), the key check, return.
ParseAnalysis(content) ==
    IF content.kind = "not_json" THEN OnJSONDecodeError("Expecting value")
    ELSE IF content.kind = "not_str"
         THEN Raised("TypeError", "the JSON object must be str, bytes or bytearray")
         ELSE ValidateKeys(content)

\* The outer try block: the POST, raise_for_status, response.json(), the
\* choices check, the content lookup, the inner try.
TryAnalyze(p) ==
    IF p.net # "ok" THEN Raised(p.net, "request failed")
    ELSE IF RaisesForStatus(p.status) THEN Raised("HTTPError", "bad status")
    ELSE IF p.data = "not_json" THEN Raised(p.jsonExc, "Expecting value")
    ELSE IF p.data = "scalar" THEN Raised("TypeError", "argument is not iterable")
    ELSE IF p.data \in {"no_choices", "empty_choices"}
         THEN Raised("ValueError", "Invalid response format from GROQ API")
    ELSE IF p.data = "bad_choice" THEN Raised("KeyError", "message")
    ELSE ParseAnalysis(p.content)

\* `except requests.RequestException`
OnRequestException(e) == Failure("Failed to connect to GROQ API", e.msg)

\* `except Exception`
OnException(e) == Failure("Failed to analyze text", e.msg)

\* Whether the first except clause takes the exception.
IsRequestException(cls) == cls \in RequestExceptions

\* analyze_text
AnalyzeText(p) ==
    LET r == TryAnalyze(p)
    IN  IF r.exc = NoExc THEN r.value
        ELSE IF IsRequestException(r.exc.cls) THEN OnRequestException(r.exc)
        ELSE OnException(r.exc)

(***************************************************************************)
(* The /analyze endpoint                                                   *)
(***************************************************************************)
\* jsonify({'error': msg})
ErrorBody(msg) == Json("object", {"error"}, msg, "")

\* `'error' in analysis`
HasError(a) == "error" \in a.keys

\* return jsonify(b), st
Reply(st, b) ==
    /\ status' = st
    /\ body' = b
    /\ respCount' = respCount + 1
    /\ pc' = "done"

Init ==
    /\ pc = "start"
    /\ url \in Urls
    /\ fetched = NotFetched
    /\ title = <<>>
    /\ text = <<>>
    /\ llm = NotPosted
    /\ analysis = NoJson
    /\ status = 0
    /\ body = NoJson
    /\ getCount = 0
    /\ postCount = 0
    /\ respCount = 0

\* url = request.form.get('url') and the two checks on it
Validate ==
    /\ pc = "start"
    /\ IF UrlMissing(url)
       THEN Reply(400, ErrorBody("No URL provided"))
       ELSE IF ~UrlWellFormed(url)
            THEN Reply(400, ErrorBody("Invalid URL format. URL must start with http:// or https://"))
            ELSE /\ pc' = "extract"
                 /\ UNCHANGED <<status, body, respCount>>
    /\ UNCHANGED <<url, fetched, title, text, llm, analysis, getCount, postCount>>

\* title, text = scraper.extract_article(url); an exception that escapes it
\* reaches the handler's own except clause.
Extract ==
    /\ pc = "extract"
    /\ getCount' = getCount + 1
    /\ \E g \in GetOutcomes :
         /\ fetched' = g
         /\ LET r == ExtractArticle(g)
            IN  IF r.exc # NoExc
                THEN /\ Reply(500, ErrorBody(r.exc.msg))
                     /\ UNCHANGED <<title, text>>
                ELSE /\ title' = r.title
                     /\ text' = r.text
                     /\ pc' = "extracted"
                     /\ UNCHANGED <<status, body, respCount>>
    /\ UNCHANGED <<url, llm, analysis, postCount>>

\* CheckText fetching the page again when the text is empty.
CheckTextRetry ==
    /\ pc = "extracted"
    /\ IF text = <<>>
       THEN /\ pc' = "extract"
            /\ UNCHANGED fetched
       ELSE /\ pc' = "analyze"
            /\ fetched' = [fetched EXCEPT !.page = <<>>]
    /\ UNCHANGED <<url, title, text, llm, analysis, status, body,
                   getCount, postCount, respCount>>

\* `if not text: return ..., 400`.  The parsed page is a local of
\* extract_article; the model keeps it in fetched until the analysis starts.
CheckText ==
    /\ pc = "extracted"
    /\ IF text = <<>>
       THEN /\ Reply(400, ErrorBody("Failed to extract article content"))
            /\ UNCHANGED fetched
       ELSE /\ pc' = "analyze"
            /\ fetched' = [fetched EXCEPT !.page = <<>>]
            /\ UNCHANGED <<status, body, respCount>>
    /\ UNCHANGED <<url, title, text, llm, analysis, getCount, postCount>>

\* analysis = analyzer.analyze_text(title, text)
Analyze ==
    /\ pc = "analyze"
    /\ postCount' = postCount + 1
    /\ \E p \in PostOutcomes :
         /\ llm' = p
         /\ analysis' = AnalyzeText(p)
    /\ pc' = "analyzed"
    /\ UNCHANGED <<url, fetched, title, text, status, body, getCount, respCount>>

\* `if 'error' in analysis: return jsonify(analysis), 500`, else 200
Respond ==
    /\ pc = "analyzed"
    /\ IF HasError(analysis)
       THEN Reply(500, analysis)
       ELSE Reply(200, analysis)
    /\ UNCHANGED <<url, fetched, title, text, llm, analysis, getCount, postCount>>

Next ==
    \/ Validate
    \/ Extract
    \/ CheckText
    \/ Analyze
    \/ Respond

Spec == Init /\ [][Next]_vars

(***************************************************************************)
(* Vocabulary of the properties                                            *)
(***************************************************************************)
\* The url field is missing, empty or has neither scheme prefix.
InvalidUrl ==
    \/ ~url.given
    \/ url.value = <<>>
    \/ ~(StartsWith(url.value, HttpPrefix) \/ StartsWith(url.value, HttpsPrefix))

\* The GET succeeded, no later step failed unexpectedly, and fetched.page is
\* still the parsed page (it is dropped when the analysis starts).
PageParsed ==
    /\ getCount = 1
    /\ postCount = 0
    /\ pc \in {"extracted", "done"}
    /\ fetched.net = "ok"
    /\ fetched.status \in 200..399
    /\ fetched.fault = "none"

\* Some element of the page matches the i-th selector.
HasMatch(page, i) ==
    \E k \in 1..Len(page) : Matches(page[k], Selectors[i])

\* The first element, in document order, that matches the i-th selector.
FirstMatch(page, i) ==
    CHOOSE k \in 1..Len(page) :
        /\ Matches(page[k], Selectors[i])
        /\ \A m \in 1..(k - 1) : ~Matches(page[m], Selectors[i])

NoSelectorMatches(page) == \A i \in 1..Len(Selectors) : ~HasMatch(page, i)

\* Every paragraph the cleanup keeps in the container is whitespace only.
NoParagraphText(container) ==
    \A k \in 1..Len(container.paras) :
        \/ container.paras[k].unwanted
        \/ \A m \in 1..Len(container.paras[k].text) :
               IsSpace(container.paras[k].text[m])

\* The GET failed: connection error, timeout or an error status.
FetchFailed ==
    \/ fetched.net \in {"ConnectionError", "Timeout"}
    \/ fetched.net = "ok" /\ fetched.status \in {404, 500}

\* The handler's own except clause answered after extract_article raised.
ExtractEscaped ==
    pc = "done" /\ getCount = 1 /\ postCount = 0 /\ status = 500

\* The POST delivered a content for the inner try block.
ContentDelivered == postCount = 1 /\ llm.net = "ok" /\ llm.data = "content"

\* The POST failed at the transport or HTTP level.
TransportFailure ==
    \/ llm.net \in {"ConnectionError", "Timeout"}
    \/ llm.net = "ok" /\ llm.status \notin 200..299

IsFailureMapping(a) == a.kind = "object" /\ a.keys = {"error", "details"}

(***************************************************************************)
(* Properties                                                              *)
(***************************************************************************)
\* C1: when the content of the LLM response parses to a JSON object with all
\* six required keys, whatever other keys it has, the endpoint answers 200
\* with that object as the body.
C1_CompleteAnalysisReturns200 ==
    ( /\ pc = "done"
      /\ ContentDelivered
      /\ llm.content.kind = "object"
      /\ ExpectedKeys \subseteq llm.content.keys )
    => (status = 200 /\ body = llm.content)

\* C2: what analyze_text returns either has all six required keys or is the
\* failure mapping {error, details}, never both, and a value with the six
\* keys does not contain the key error.
C2_ShapesAreExclusive ==
    postCount = 1 =>
        LET success == ExpectedKeys \subseteq analysis.keys
            failure == IsFailureMapping(analysis)
        IN  /\ success \/ failure
            /\ ~(success /\ failure)
            /\ success => "error" \notin analysis.keys

C4_NoContainerIs400 ==
    (PageParsed /\ NoSelectorMatches(fetched.page)) =>
        /\ title = <<>>
        /\ text = <<>>
        /\ pc = "done" =>
            /\ status = 400
            /\ body.kind = "object"
            /\ body.keys = {"error"}
            /\ body.error = "Failed to extract article content"

C4_Witness ==
    /\ pc = "done"
    /\ PageParsed
    /\ NoSelectorMatches(fetched.page)
    /\ \E k \in 1..Len(fetched.page) : fetched.page[k].tag = "h1"
    /\ status = 400

\* C5: when the content of the LLM response parses as JSON but lacks a
\* required key, analyze_text returns {error: "Failed to analyze text",
\* details} and the endpoint answers 500 with that mapping.
C5_MissingKeysIsGenericFailure ==
    ( /\ ContentDelivered
      /\ llm.content.kind \in {"object", "array", "string", "scalar"}
      /\ \E k \in ExpectedKeys : k \notin llm.content.keys )
    => /\ IsFailureMapping(analysis)
       /\ analysis.error = "Failed to analyze text"
       /\ pc = "done" => (status = 500 /\ body = analysis)

C5_Witness ==
    /\ pc = "done"
    /\ ContentDelivered
    /\ llm.content.kind = "object"
    /\ llm.content.keys = PromptKeys
    /\ status = 500
    /\ body.error = "Failed to analyze text"

\* C6: when the content of the LLM response is no valid JSON, the endpoint
\* answers 500 with a mapping that has the key error, whose value is
\* "Failed to analyze text" and never "Invalid JSON response from GROQ".
C6_InvalidJsonIsGenericFailure ==
    (ContentDelivered /\ llm.content.kind = "not_json") =>
        /\ "error" \in analysis.keys
        /\ analysis.error = "Failed to analyze text"
        /\ analysis.error # "Invalid JSON response from GROQ"
        /\ pc = "done" => (status = 500 /\ body = analysis)

C6_Witness ==
    /\ pc = "done"
    /\ ContentDelivered
    /\ llm.content.kind = "not_json"
    /\ status = 500
    /\ body.error = "Failed to analyze text"
    /\ body.details = "Invalid JSON response from GROQ"

\* C7: analyze_text returns {error: "Failed to connect to GROQ API",
\* details} whenever the POST fails at the transport or HTTP level
\* (connection error, non-2xx status), for no other kind of failure, and the
\* endpoint then answers 500 with that mapping.
C7_ConnectErrorIffTransportFailure ==
    postCount = 1 =>
        /\ TransportFailure =>
            /\ IsFailureMapping(analysis)
            /\ analysis.error = "Failed to connect to GROQ API"
            /\ pc = "done" => (status = 500 /\ body = analysis)
        /\ analysis.error = "Failed to connect to GROQ API" => TransportFailure

\* C8: a request whose url is missing, empty or without http:// or https://
\* prefix is answered 400 with a mapping whose only key is error, and
\* neither the GET nor the POST is issued for it; the GET is issued only for
\* a url with one of the two prefixes.
C8_ValidationPrecedesTraffic ==
    /\ InvalidUrl =>
        /\ getCount = 0
        /\ postCount = 0
        /\ pc \in {"start", "done"}
        /\ pc = "done" =>
            (status = 400 /\ body.kind = "object" /\ body.keys = {"error"})
    /\ getCount > 0 => ~InvalidUrl

C8_Witness ==
    /\ pc = "done"
    /\ url = Url(<<"h", "t", "t", "p", ":", "/", "x">>)
    /\ status = 400
    /\ getCount = 0
    /\ postCount = 0

\* C9: within one request the GET and the POST are each issued at most once,
\* the POST only after the GET has returned a non-empty body, no outbound
\* call follows a failure, and the request ends with exactly one response,
\* which reports a failure as an error mapping.
C9_NoRetries ==
    /\ getCount <= 1
    /\ postCount <= 1
    /\ respCount <= 1
    /\ postCount = 1 => (getCount = 1 /\ text # <<>> /\ ~FetchFailed)
    /\ (InvalidUrl /\ pc # "start") => (getCount = 0 /\ pc = "done")
    /\ (getCount = 1 /\ text = <<>>) => (postCount = 0 /\ pc \in {"extracted", "done"})
    /\ (postCount = 1 /\ IsFailureMapping(analysis)) => pc \in {"analyzed", "done"}
    /\ pc = "done" <=> respCount = 1
    /\ pc # "done" => ENABLED Next
    /\ pc = "done" =>
        /\ status \in {200, 400, 500}
        /\ ( \/ InvalidUrl
             \/ getCount = 1 /\ text = <<>>
             \/ postCount = 1 /\ ~ContentDelivered )
           => (status # 200 /\ "error" \in body.keys)

C9_Witness ==
    /\ pc = "done"
    /\ getCount = 1
    /\ postCount = 1
    /\ respCount = 1
    /\ llm.net = "Timeout"
    /\ status = 500

\* C10: the body comes from the container of the earliest selector, in the
\* order of the list, that matches an element; later selectors count only
\* when every earlier one matches nothing, and the body is empty when that
\* container has no paragraph text, whatever later containers hold.
C10_EarliestSelectorWins ==
    (PageParsed /\ pc = "extracted") =>
        \A i \in 1..Len(Selectors) :
            ( /\ HasMatch(fetched.page, i)
              /\ \A j \in 1..(i - 1) : ~HasMatch(fetched.page, j) )
            => LET container == fetched.page[FirstMatch(fetched.page, i)]
               IN  /\ text = BodyText(container)
                   /\ NoParagraphText(container) => text = <<>>
                   /\ ~NoParagraphText(container) => text # <<>>

C10_Witness ==
    /\ pc = "extracted"
    /\ PageParsed
    /\ Len(fetched.page) = 2
    /\ fetched.page[1].tag = "main"
    /\ ~NoParagraphText(fetched.page[1])
    /\ fetched.page[2].tag = "article"
    /\ NoParagraphText(fetched.page[2])
    /\ text = <<>>

====
